---- MODULE Spec2Model ----
(***************************************************************************)
(* file-sync: a watcher process pushes changed files to a receiver over    *)
(* HTTP (src/src/server.js).  The specifications share one state:          *)
(*   Spec       the watcher side: filesystem events, the debounce map, the *)
(*              timers, syncFile with its retry loop; the remote answers   *)
(*              each attempt with success or failure;                      *)
(*   SpecXfer   one watched path end to end: syncFile, the network, and    *)
(*              the POST /files handler writing the destination file;      *)
(*   SpecRetry  retryWithBackoff alone, for any maxRetries and baseDelay;  *)
(*   SpecSigint the watcher side of one path with the SIGINT handler;      *)
(*   SpecRecv   the POST /files handler alone, for any upload;             *)
(*   SpecLive   one path from the event to the destination, with fairness; *)
(*   SpecOverlap the POST /files handler with requests that overlap.       *)
(* One step is one run of the event loop: a handler from its start to its  *)
(* first await, or from one await to the next.                             *)
(***************************************************************************)
EXTENDS Integers, Sequences, FiniteSets, TLC

(***************************************************************************)
(* Program constants                                                       *)
(***************************************************************************)
DEBOUNCE_DELAY == 500
OPERATION_EXPIRY_MS == 300000
DEFAULT_MAX_RETRIES == 3
DEFAULT_BASE_DELAY == 1000

(***************************************************************************)
(* Bounds of the model                                                     *)
(***************************************************************************)
\* MAX_PENDING_OPERATIONS is 1000 in server.js:29; the model runs the same
\* code with a capacity small enough for the watched paths to fill it.
MAX_PENDING_OPERATIONS == 2
\* handleFileChange calls in one run
MaxEvents == 3
\* chunks in one file
MaxLen == 2
\* the largest maxRetries that SpecRetry tries
MaxRetriesTried == 3
\* requests the receiver holds at once
MaxRequests == 2
\* syncFile calls in one run of SpecXfer
MaxSyncs == 1

Paths == {"a", "b", "c"}
Bytes == {0, 1}
ChangeKinds == {"update", "create"}

\* The clock is observed in steps of half a debounce window, or in one jump
\* of the expiry period (a suspended process, a blocked event loop).
Tick == DEBOUNCE_DELAY \div 2
TimeSteps == {Tick, OPERATION_EXPIRY_MS}

RECURSIVE SeqsUpTo(_)
SeqsUpTo(n) ==
  IF n = 0 THEN {<<>>}
  ELSE LET S == SeqsUpTo(n - 1)
       IN S \cup {Append(s, b) : s \in {x \in S : Len(x) = n - 1}, b \in Bytes}

Contents == SeqsUpTo(MaxLen)
\* what the watched tree is written with under Spec: one path is rewritten
\* with new content, the others are written with one content
WatchedContents(p) == IF p = "a" THEN {<<0>>, <<1>>} ELSE {<<1>>}

(***************************************************************************)
(* Files                                                                   *)
(***************************************************************************)
NoFile == [kind |-> "none", data |-> <<>>]
DirFile == [kind |-> "dir", data |-> <<>>]
RegFile(c) == [kind |-> "file", data |-> c]

\* SHA-256 of a byte sequence, as a number: the bytes folded behind a
\* leading 1, so the length counts and no two sequences share a digest
\* (a collision-free digest).  0 stands for "no checksum field".
RECURSIVE Sha256Fold(_, _)
Sha256Fold(acc, s) ==
  IF s = <<>> THEN acc ELSE Sha256Fold(2 * acc + Head(s), Tail(s))

Sha256(c) == Sha256Fold(1, c)

NoChecksum == 0

VARIABLES
  files,              \* the watched tree: path -> file
  pendingOperations,  \* the Map, in insertion order: <<[path, timeoutId, age]>>
  timers,             \* live debounce timers: {[id, path, evt, age, coalesced]}
  inFlightSyncs,      \* the Set of paths being synced
  syncs,              \* path -> the syncFile invocations that are suspended
  syncStats,          \* [totalSynced, totalErrors, lastSync, status]
  proc,               \* "running", "exited" or "crashed"
  cleanupInterval,    \* "active" or "cleared"
  nEvents,            \* number of handleFileChange calls so far
  last,               \* what the latest timer callback or syncFile exit did
  requests,           \* receiver: the requests being handled
  uploads,            \* receiver: the temporary files in uploads/
  dest,               \* receiver: the destination file of the watched path
  response,           \* receiver: the latest response sent
  retry               \* retryWithBackoff alone

vars == <<files, pendingOperations, timers, inFlightSyncs, syncs, syncStats,
          proc, cleanupInterval, nEvents, last, requests, uploads, dest,
          response, retry>>

senderVars == <<files, pendingOperations, timers, inFlightSyncs, syncs,
                syncStats, proc, cleanupInterval, nEvents, last>>
receiverVars == <<requests, uploads, dest, response>>

(***************************************************************************)
(* Time.  Ages stand for now - timestamp.  An age is exact below           *)
(* DEBOUNCE_DELAY; from there to OPERATION_EXPIRY_MS the code no longer    *)
(* tells ages apart, and DEBOUNCE_DELAY stands for all of them; beyond     *)
(* that OPERATION_EXPIRY_MS + 1 does.                                      *)
(***************************************************************************)
Elapse(a, d) ==
  IF a + d > OPERATION_EXPIRY_MS THEN OPERATION_EXPIRY_MS + 1
  ELSE IF a + d >= DEBOUNCE_DELAY THEN DEBOUNCE_DELAY
  ELSE a + d

\* lastSync is null, or the time of the latest success; the model names the
\* time of the n-th success n
NeverSynced == 0
TimeOfSync(lastSync) == lastSync + 1

(***************************************************************************)
(* The Map pendingOperations                                               *)
(***************************************************************************)
MapHas(m, k) == \E i \in 1..Len(m) : m[i].path = k
MapGet(m, k) == m[CHOOSE i \in 1..Len(m) : m[i].path = k]
MapDelete(m, k) == SelectSeq(m, LAMBDA e : e.path # k)
\* Map.set keeps the position of a key that is present
MapSet(m, k, e) ==
  IF MapHas(m, k) THEN [i \in 1..Len(m) |-> IF m[i].path = k THEN e ELSE m[i]]
  ELSE Append(m, e)

ClearTimeout(ts, id) == {t \in ts : t.id # id}

UsedIds(ts, m) == {t.id : t \in ts} \cup {m[i].timeoutId : i \in 1..Len(m)}
FreshId(ts, m) ==
  CHOOSE i \in 1..(Cardinality(UsedIds(ts, m)) + 1) :
    /\ i \notin UsedIds(ts, m)
    /\ \A j \in 1..(i - 1) : j \in UsedIds(ts, m)

(***************************************************************************)
(* retryWithBackoff: the two decisions of its loop                         *)
(***************************************************************************)
RetryExhausted(attempt, maxRetries) == attempt = maxRetries

RECURSIVE Pow2(_)
Pow2(n) == IF n = 0 THEN 1 ELSE 2 * Pow2(n - 1)

\* (mutant) a delay that grows by baseDelay each time
BackoffLinear(baseDelay, attempt) == baseDelay * (attempt + 1)

BackoffDelay(baseDelay, attempt) == baseDelay * Pow2(attempt)

(***************************************************************************)
(* cleanupPendingOperations                                                *)
(***************************************************************************)
\* (mutant) the age compared with the debounce delay
ExpiredAfterDebounce(e) == e.age >= DEBOUNCE_DELAY

Expired(e) == e.age > OPERATION_EXPIRY_MS

CleanupMap(m) == SelectSeq(m, LAMBDA e : ~Expired(e))

\* (mutant) a sweep that cancels no timer
CleanupCancelsNothing(ts, m) == ts

CleanupTimers(ts, m) ==
  {t \in ts : ~\E i \in 1..Len(m) : Expired(m[i]) /\ m[i].timeoutId = t.id}

(***************************************************************************)
(* syncFile                                                                *)
(***************************************************************************)
\* (mutant) syncFile without its test
InFlightGuardOff(set, p) == FALSE

\* the test that opens syncFile
InFlightGuard(set, p) == p \in set

\* (mutant) a finally block that releases nothing
FinallyLeaks(set, p) == set

\* the finally block
Finally(set, p) == set \ {p}

\* the try/catch of the timer callback around "await syncFile(...)": the
\* error syncFile rethrows is logged and the process goes on
CallbackCatch == "running"

\* (mutant) a callback that calls syncFile for every kind of event
TransfersOnAny(evt) == TRUE

\* the kinds of event whose timer callback calls syncFile
TransfersOn(evt) == evt = "update" \/ evt = "create"

RemoveAt(s, i) == SubSeq(s, 1, i - 1) \o SubSeq(s, i + 1, Len(s))

\* last (not in the code) names what the latest timer callback, or the
\* latest return of syncFile, did
NoLast == "none"

\* A suspended invocation.  burst and seen are not in the code: burst tells
\* that the timer which made the call stood for two or more events, seen is
\* the content of the file when that timer fired.
NewSync(p, burst) ==
  [pc |-> "checksum", checksum |-> NoChecksum, attempt |-> 0,
   req |-> 0, delay |-> 0, burst |-> burst,
   seen |-> files[p].data]

\* (mutant) syncFile without its mark
AcquireNothing(set, p) == set

\* "mark file as being synced"
Acquire(set, p) == set \cup {p}

\* syncFile from its call to its first await (or to its return)
SyncFileEnter(p, burst) ==
  IF InFlightGuard(inFlightSyncs, p)
  THEN /\ UNCHANGED <<inFlightSyncs, syncs>>
       /\ last' = "skipped"
  ELSE IF files[p].kind = "none"
  THEN /\ inFlightSyncs' = Finally(Acquire(inFlightSyncs, p), p)
       /\ UNCHANGED syncs
       /\ last' = "missing"
  ELSE IF files[p].kind = "dir"
  THEN /\ inFlightSyncs' = Finally(Acquire(inFlightSyncs, p), p)
       /\ UNCHANGED syncs
       /\ last' = "directory"
  ELSE /\ inFlightSyncs' = Acquire(inFlightSyncs, p)
       /\ syncs' = [syncs EXCEPT ![p] = Append(@, NewSync(p, burst))]
       /\ last' = "started"

\* the catch and the finally of syncFile, then the catch of the callback
SyncThrew(p, i, why) ==
  /\ syncStats' = [syncStats EXCEPT !.totalErrors = @ + 1]
  /\ inFlightSyncs' = Finally(inFlightSyncs, p)
  /\ syncs' = [syncs EXCEPT ![p] = RemoveAt(@, i)]
  /\ proc' = CallbackCatch
  /\ last' = why

\* the statements after retryWithBackoff returns, then the finally
SyncSucceeded(p, i) ==
  /\ syncStats' = [syncStats EXCEPT !.totalSynced = @ + 1,
                                    !.lastSync = TimeOfSync(@)]
  /\ inFlightSyncs' = Finally(inFlightSyncs, p)
  /\ syncs' = [syncs EXCEPT ![p] = RemoveAt(@, i)]
  /\ proc' = proc
  /\ last' = IF syncs[p][i].attempt = 0 THEN "success" ELSE "success on retry"

\* (mutant) every failed attempt counted as an error
AttemptFailedCounted(p, i) ==
  LET inv == syncs[p][i] IN
  IF RetryExhausted(inv.attempt, DEFAULT_MAX_RETRIES)
  THEN SyncThrew(p, i, "exhausted")
  ELSE /\ syncs' = [syncs EXCEPT ![p][i] =
                      [inv EXCEPT !.pc = "sending", !.req = 0,
                         !.attempt = @ + 1,
                         !.delay = BackoffDelay(DEFAULT_BASE_DELAY, inv.attempt)]]
       /\ syncStats' = [syncStats EXCEPT !.totalErrors = @ + 1]
       /\ UNCHANGED <<inFlightSyncs, proc, last>>

\* The catch of retryWithBackoff after a failed attempt: the error is
\* thrown on after the last attempt; otherwise the loop waits delay ms and
\* calls fn again.  Nothing else happens during the wait, so pc "sending"
\* covers the wait and the start of the next attempt.
AttemptFailed(p, i) ==
  LET inv == syncs[p][i] IN
  IF RetryExhausted(inv.attempt, DEFAULT_MAX_RETRIES)
  THEN SyncThrew(p, i, "exhausted")
  ELSE /\ syncs' = [syncs EXCEPT ![p][i] =
                      [inv EXCEPT !.pc = "sending", !.req = 0,
                         !.attempt = @ + 1,
                         !.delay = BackoffDelay(DEFAULT_BASE_DELAY, inv.attempt)]]
       /\ UNCHANGED <<syncStats, inFlightSyncs, proc, last>>

\* calculateChecksum settles: its stream failed (the file is gone, or is a
\* directory now), or the digest of what the file holds is kept and the
\* first attempt is started
ChecksumDone(p, i) ==
  /\ proc = "running"
  /\ i \in 1..Len(syncs[p])
  /\ syncs[p][i].pc = "checksum"
  /\ IF files[p].kind # "file"
     THEN SyncThrew(p, i, "unreadable")
     ELSE /\ syncs' = [syncs EXCEPT ![p][i] =
                         [@ EXCEPT !.pc = "sending", !.attempt = 0,
                                   !.checksum = Sha256(files[p].data)]]
          /\ UNCHANGED <<syncStats, inFlightSyncs, proc, last>>
  /\ UNCHANGED <<files, pendingOperations, timers, cleanupInterval, nEvents>>
  /\ UNCHANGED receiverVars
  /\ UNCHANGED retry

\* One attempt against a remote that is not modelled: the file is streamed
\* and fetch settles with ok, or with anything else.  Between the two
\* nothing on the watcher side looks at the attempt, so they are one step.
Attempt(p, i, ok) ==
  /\ proc = "running"
  /\ i \in 1..Len(syncs[p])
  /\ syncs[p][i].pc = "sending"
  /\ IF ok /\ files[p].kind = "file"
     THEN SyncSucceeded(p, i)
     ELSE AttemptFailed(p, i)
  /\ UNCHANGED <<files, pendingOperations, timers, cleanupInterval, nEvents>>
  /\ UNCHANGED receiverVars
  /\ UNCHANGED retry

(***************************************************************************)
(* handleFileChange and its timer callback                                 *)
(***************************************************************************)
\* (mutant) no room made
MakeNoRoom(ts, m) == <<ts, m>>

\* (mutant) the newest entry evicted
MakeRoomEvictsNewest(ts, m) ==
  IF Len(m) >= MAX_PENDING_OPERATIONS
  THEN LET ts1 == CleanupTimers(ts, m)
           m1 == CleanupMap(m)
       IN IF Len(m1) >= MAX_PENDING_OPERATIONS /\ Len(m1) > 0
          THEN <<ClearTimeout(ts1, m1[Len(m1)].timeoutId),
                 SubSeq(m1, 1, Len(m1) - 1)>>
          ELSE <<ts1, m1>>
  ELSE <<ts, m>>

\* the capacity test, the sweep and the eviction of the oldest entry:
\* <<timers, map>> after them
MakeRoom(ts, m) ==
  IF Len(m) >= MAX_PENDING_OPERATIONS
  THEN LET ts1 == CleanupTimers(ts, m)
           m1 == CleanupMap(m)
       IN IF Len(m1) >= MAX_PENDING_OPERATIONS /\ Len(m1) > 0
          THEN <<ClearTimeout(ts1, Head(m1).timeoutId), Tail(m1)>>
          ELSE <<ts1, m1>>
  ELSE <<ts, m>>

\* (mutant) the earlier timer left running
ClearNothing(ts, m, p) == ts

\* the timers after "clear existing timeout for this file"
ClearExisting(ts, m, p) ==
  IF MapHas(m, p) THEN ClearTimeout(ts, MapGet(m, p).timeoutId) ELSE ts

\* TRUE when this event follows, by less than DEBOUNCE_DELAY, a create or
\* update event of the same path whose timer is still to fire
Coalesces(evt, p) ==
  /\ evt \in ChangeKinds
  /\ MapHas(pendingOperations, p)
  /\ MapGet(pendingOperations, p).age < DEBOUNCE_DELAY
  /\ \E t \in timers : /\ t.id = MapGet(pendingOperations, p).timeoutId
                       /\ t.path = p
                       /\ t.evt \in ChangeKinds

HandleFileChange(evt, p) ==
  LET ts0 == ClearExisting(timers, pendingOperations, p)
      room == MakeRoom(ts0, pendingOperations)
      id == FreshId(room[1], room[2])
  IN /\ timers' = room[1] \cup
                    {[id |-> id, path |-> p, evt |-> evt, age |-> 0,
                      coalesced |-> Coalesces(evt, p)]}
     /\ pendingOperations' =
          MapSet(room[2], p, [path |-> p, timeoutId |-> id, age |-> 0])
     /\ nEvents' = nEvents + 1

\* the watcher reports a change of the tree
FsWrite(p, c) ==
  /\ proc = "running"
  /\ nEvents < MaxEvents
  /\ files[p].kind # "dir"
  /\ files' = [files EXCEPT ![p] = RegFile(c)]
  /\ HandleFileChange(IF files[p].kind = "none" THEN "create" ELSE "update", p)
  /\ UNCHANGED <<inFlightSyncs, syncs, syncStats, proc, cleanupInterval, last>>
  /\ UNCHANGED receiverVars
  /\ UNCHANGED retry

FsMkdir(p) ==
  /\ proc = "running"
  /\ nEvents < MaxEvents
  /\ files[p].kind = "none"
  /\ files' = [files EXCEPT ![p] = DirFile]
  /\ HandleFileChange("create", p)
  /\ UNCHANGED <<inFlightSyncs, syncs, syncStats, proc, cleanupInterval, last>>
  /\ UNCHANGED receiverVars
  /\ UNCHANGED retry

FsRemove(p) ==
  /\ proc = "running"
  /\ nEvents < MaxEvents
  /\ files[p].kind # "none"
  /\ files' = [files EXCEPT ![p] = NoFile]
  /\ HandleFileChange("remove", p)
  /\ UNCHANGED <<inFlightSyncs, syncs, syncStats, proc, cleanupInterval, last>>
  /\ UNCHANGED receiverVars
  /\ UNCHANGED retry

\* the callback of a debounce timer, to its first await
TimerFire(t) ==
  /\ proc = "running"
  /\ t \in timers
  /\ t.age >= DEBOUNCE_DELAY
  /\ timers' = timers \ {t}
  /\ pendingOperations' = MapDelete(pendingOperations, t.path)
  /\ IF TransfersOn(t.evt)
     THEN SyncFileEnter(t.path, t.coalesced)
     ELSE /\ UNCHANGED <<inFlightSyncs, syncs>>
          /\ last' = "logged"
  /\ UNCHANGED <<files, syncStats, proc, cleanupInterval, nEvents>>
  /\ UNCHANGED receiverVars
  /\ UNCHANGED retry

\* the callback of setInterval(..., 60000)
CleanupTick ==
  /\ proc = "running"
  /\ cleanupInterval = "active"
  /\ timers' = CleanupTimers(timers, pendingOperations)
  /\ pendingOperations' = CleanupMap(pendingOperations)
  /\ UNCHANGED <<files, inFlightSyncs, syncs, syncStats, proc, cleanupInterval,
                 nEvents, last>>
  /\ UNCHANGED receiverVars
  /\ UNCHANGED retry

\* the SIGINT handler
Sigint ==
  /\ proc = "running"
  /\ cleanupInterval' = "cleared"
  /\ proc' = "exited"
  /\ UNCHANGED <<files, pendingOperations, timers, inFlightSyncs, syncs,
                 syncStats, nEvents, last>>
  /\ UNCHANGED receiverVars
  /\ UNCHANGED retry

\* time passes
Advance(d) ==
  /\ proc = "running"
  /\ timers' = {[t EXCEPT !.age = Elapse(@, d)] : t \in timers}
  /\ pendingOperations' =
       [i \in 1..Len(pendingOperations) |->
          [pendingOperations[i] EXCEPT !.age = Elapse(@, d)]]
  /\ UNCHANGED <<files, inFlightSyncs, syncs, syncStats, proc, cleanupInterval,
                 nEvents, last>>
  /\ UNCHANGED receiverVars
  /\ UNCHANGED retry

(***************************************************************************)
(* The watcher side                                                        *)
(***************************************************************************)
NoResponse == [id |-> 0, status |-> 0]

NoRetry == [pc |-> "off", maxRetries |-> 0, baseDelay |-> 0, attempt |-> 0,
            log |-> <<>>, outcomes |-> <<>>, out |-> "none"]

InitReceiver ==
  /\ requests = <<>>
  /\ uploads = {}
  /\ dest = NoFile
  /\ response = NoResponse

Init ==
  /\ files = [p \in Paths |-> NoFile]
  /\ pendingOperations = <<>>
  /\ timers = {}
  /\ inFlightSyncs = {}
  /\ syncs = [p \in Paths |-> <<>>]
  /\ syncStats = [totalSynced |-> 0, totalErrors |-> 0,
                  lastSync |-> NeverSynced, status |-> "running"]
  /\ proc = "running"
  /\ cleanupInterval = "active"
  /\ nEvents = 0
  /\ last = NoLast
  /\ InitReceiver
  /\ retry = NoRetry

Next ==
  \/ \E p \in Paths : \E c \in WatchedContents(p) : FsWrite(p, c)
  \/ \E p \in Paths : FsMkdir(p)
  \/ \E p \in Paths : FsRemove(p)
  \/ \E t \in timers : TimerFire(t)
  \/ \E p \in Paths, i \in 1..2 : ChecksumDone(p, i)
  \/ \E p \in Paths, i \in 1..2, ok \in BOOLEAN : Attempt(p, i, ok)
  \/ CleanupTick
  \/ \E d \in TimeSteps : Advance(d)

Spec == Init /\ [][Next]_vars

(***************************************************************************)
(* One watched path end to end.  The source file is written at any time,   *)
(* syncFile is called as the timer callback calls it, each attempt uploads *)
(* what the file holds to the receiver, and the POST /files handler        *)
(* verifies it and copies it to the destination, one chunk a step.         *)
(***************************************************************************)
XPath == "a"

\* contents the source file takes: the empty file and the contents that end
\* in a nonzero byte
XferContents == {c \in Contents : c = <<>> \/ c[Len(c)] = 1}

\* (mutant) a handler that accepts every upload
ChecksumNeverMismatch(received, actual) == FALSE

\* the test of the handler on the checksum field and the digest of the
\* temporary file: TRUE when the upload is to be rejected
ChecksumMismatch(received, actual) ==
  received # NoChecksum /\ actual # received

\* data after a write of byte b at position pos (a position past the end
\* leaves a hole of zero bytes)
RECURSIVE WriteAt(_, _, _)
WriteAt(data, pos, b) ==
  IF pos <= Len(data) THEN [data EXCEPT ![pos] = b]
  ELSE IF pos = Len(data) + 1 THEN Append(data, b)
  ELSE WriteAt(Append(data, 0), pos, b)

\* fs.createWriteStream(destPath) opens with flag 'w': the file is created
\* or truncated
OpenForWrite(f) == RegFile(<<>>)

UploadIds == uploads \cup {requests[k].id : k \in 1..Len(requests)}
FreshUpload ==
  CHOOSE n \in 1..(Cardinality(UploadIds) + 1) :
    n \notin UploadIds /\ \A j \in 1..(n - 1) : j \in UploadIds

\* the source file is written (its watcher event is not followed here)
SourceWritten(c) ==
  /\ proc = "running"
  /\ files[XPath] # RegFile(c)
  /\ files' = [files EXCEPT ![XPath] = RegFile(c)]
  /\ UNCHANGED <<pendingOperations, timers, inFlightSyncs, syncs, syncStats,
                 proc, cleanupInterval, nEvents, last>>
  /\ UNCHANGED receiverVars
  /\ UNCHANGED retry

\* the timer callback of a create or update event calls syncFile
SyncCalled ==
  /\ proc = "running"
  /\ syncStats.totalSynced + syncStats.totalErrors + Len(syncs[XPath]) < MaxSyncs
  /\ SyncFileEnter(XPath, FALSE)
  /\ UNCHANGED <<files, pendingOperations, timers, syncStats, proc,
                 cleanupInterval, nEvents>>
  /\ UNCHANGED receiverVars
  /\ UNCHANGED retry

\* One attempt streams the file into the request: the bytes are those the
\* file holds now.  multer stores them in a temporary file and the handler
\* is called.  A stream error fails the attempt.
Upload(p, i) ==
  /\ proc = "running"
  /\ i \in 1..Len(syncs[p])
  /\ syncs[p][i].pc = "sending"
  /\ IF files[p].kind # "file"
     THEN /\ AttemptFailed(p, i)
          /\ UNCHANGED receiverVars
     ELSE /\ Len(requests) < MaxRequests
          /\ syncs' = [syncs EXCEPT ![p][i] =
                         [@ EXCEPT !.pc = "awaiting", !.req = FreshUpload]]
          /\ requests' = Append(requests,
                           [id |-> FreshUpload, temp |-> files[p].data,
                            checksum |-> syncs[p][i].checksum, pc |-> "received",
                            opened |-> FALSE, off |-> 0])
          /\ uploads' = uploads \cup {FreshUpload}
          /\ UNCHANGED <<syncStats, inFlightSyncs, proc, last, dest, response>>
  /\ UNCHANGED <<files, pendingOperations, timers, cleanupInterval, nEvents>>
  /\ UNCHANGED retry

\* fetch rejects while the request is with the receiver: the 30 s timeout,
\* or a connection that breaks.  The handler goes on.
AttemptTimesOut(p, i) ==
  /\ proc = "running"
  /\ i \in 1..Len(syncs[p])
  /\ syncs[p][i].pc = "awaiting"
  /\ AttemptFailed(p, i)
  /\ UNCHANGED <<files, pendingOperations, timers, cleanupInterval, nEvents>>
  /\ UNCHANGED receiverVars
  /\ UNCHANGED retry

\* the attempt that awaits request id, if one still does
Awaiting(id) ==
  {pi \in Paths \X (1..2) :
     /\ pi[2] <= Len(syncs[pi[1]])
     /\ syncs[pi[1]][pi[2]].pc = "awaiting"
     /\ syncs[pi[1]][pi[2]].req = id}

\* The handler sends its response and returns; fetch settles in the attempt
\* that awaits it: response.ok continues syncFile after retryWithBackoff,
\* any other status throws inside fn.
Respond(k, status) ==
  /\ requests' = RemoveAt(requests, k)
  /\ response' = [id |-> requests[k].id, status |-> status]
  /\ IF Awaiting(requests[k].id) # {}
     THEN LET pi == CHOOSE x \in Awaiting(requests[k].id) : TRUE
          IN IF status = 200
             THEN SyncSucceeded(pi[1], pi[2])
             ELSE AttemptFailed(pi[1], pi[2])
     ELSE UNCHANGED <<syncs, syncStats, inFlightSyncs, proc, last>>

\* the handler from its call to the end of "verify checksum if provided":
\* a mismatch removes the temporary file and answers 400; otherwise the
\* destination folder is made and the two streams are created
HandlerVerify(k) ==
  /\ k \in 1..Len(requests)
  /\ requests[k].pc = "received"
  /\ IF ChecksumMismatch(requests[k].checksum, Sha256(requests[k].temp))
     THEN /\ uploads' = uploads \ {requests[k].id}
          /\ Respond(k, 400)
          /\ UNCHANGED dest
     ELSE /\ requests' = [requests EXCEPT ![k].pc = "copying"]
          /\ UNCHANGED <<uploads, dest, response, syncs, syncStats,
                         inFlightSyncs, proc, last>>
  /\ UNCHANGED <<files, pendingOperations, timers, cleanupInterval, nEvents>>
  /\ UNCHANGED retry

\* the write stream opens the destination
HandlerOpen(k) ==
  /\ k \in 1..Len(requests)
  /\ requests[k].pc = "copying"
  /\ ~requests[k].opened
  /\ dest' = OpenForWrite(dest)
  /\ requests' = [requests EXCEPT ![k].opened = TRUE]
  /\ UNCHANGED <<uploads, response>>
  /\ UNCHANGED senderVars
  /\ UNCHANGED retry

\* pipe: the next chunk of the temporary file is written at the position
\* of this stream
HandlerWrite(k) ==
  /\ k \in 1..Len(requests)
  /\ requests[k].pc = "copying"
  /\ requests[k].opened
  /\ requests[k].off < Len(requests[k].temp)
  /\ dest' = RegFile(WriteAt(dest.data, requests[k].off + 1,
                             requests[k].temp[requests[k].off + 1]))
  /\ requests' = [requests EXCEPT ![k].off = @ + 1]
  /\ UNCHANGED <<uploads, response>>
  /\ UNCHANGED senderVars
  /\ UNCHANGED retry

\* (mutant) 'finish' as soon as the stream is open
CopyDoneEarly(r) == r.opened

\* the write stream has been given every byte of the temporary file and
\* has ended
CopyDone(r) == r.opened /\ r.off = Len(r.temp)

\* 'finish': the temporary file is removed, the promise resolves and the
\* handler answers 200
HandlerFinish(k) ==
  /\ k \in 1..Len(requests)
  /\ requests[k].pc = "copying"
  /\ CopyDone(requests[k])
  /\ uploads' = uploads \ {requests[k].id}
  /\ Respond(k, 200)
  /\ UNCHANGED dest
  /\ UNCHANGED <<files, pendingOperations, timers, cleanupInterval, nEvents>>
  /\ UNCHANGED retry

\* 'error' on a stream (or createFolder throws): the promise rejects and
\* the catch block answers 500; the temporary file and whatever was written
\* to the destination stay
HandlerFails(k) ==
  /\ k \in 1..Len(requests)
  /\ requests[k].pc = "copying"
  /\ Respond(k, 500)
  /\ UNCHANGED <<uploads, dest>>
  /\ UNCHANGED <<files, pendingOperations, timers, cleanupInterval, nEvents>>
  /\ UNCHANGED retry

InitXfer ==
  /\ files \in {[p \in Paths |-> IF p = XPath THEN f ELSE NoFile] :
                  f \in {RegFile(c) : c \in XferContents}}
  /\ pendingOperations = <<>>
  /\ timers = {}
  /\ inFlightSyncs = {}
  /\ syncs = [p \in Paths |-> <<>>]
  /\ syncStats = [totalSynced |-> 0, totalErrors |-> 0,
                  lastSync |-> NeverSynced, status |-> "running"]
  /\ proc = "running"
  /\ cleanupInterval = "active"
  /\ nEvents = 0
  /\ last = NoLast
  /\ requests = <<>>
  /\ uploads = {}
  /\ dest \in {NoFile} \cup {RegFile(c) : c \in {x \in XferContents : Len(x) = MaxLen}}
  /\ response = NoResponse
  /\ retry = NoRetry

NextXfer ==
  \/ \E c \in XferContents : SourceWritten(c)
  \/ SyncCalled
  \/ \E i \in 1..2 : ChecksumDone(XPath, i)
  \/ \E i \in 1..2 : Upload(XPath, i)
  \/ \E i \in 1..2 : AttemptTimesOut(XPath, i)
  \/ \E k \in 1..MaxRequests : HandlerVerify(k)
  \/ \E k \in 1..MaxRequests : HandlerOpen(k)
  \/ \E k \in 1..MaxRequests : HandlerWrite(k)
  \/ \E k \in 1..MaxRequests : HandlerFinish(k)
  \/ \E k \in 1..MaxRequests : HandlerFails(k)

SpecXfer == InitXfer /\ [][NextXfer]_vars

(***************************************************************************)
(* retryWithBackoff alone: fn is any action that fails or succeeds; log    *)
(* lists the calls of fn and the waits in the order they happen.           *)
(***************************************************************************)
BaseDelays == {1, 250, 500, DEFAULT_BASE_DELAY}

\* what a call of fn ends with: a value it returns, or an error it throws
\* (fetch rejecting on a network failure or on its timeout, or the Error
\* thrown for a response that is not ok)
FnResults == {"json"}
ErrorKinds == {"network", "timeout", "status 400"}

Called == [ev |-> "call", ms |-> 0]
Waited(ms) == [ev |-> "wait", ms |-> ms]

\* (mutant) the error of the first attempt kept
FirstError(outcomes) == outcomes[1]

\* "catch (error)": the error of the attempt that has just failed
CaughtError(outcomes) == outcomes[Len(outcomes)]

InitRetry ==
  /\ files = [p \in Paths |-> NoFile]
  /\ pendingOperations = <<>>
  /\ timers = {}
  /\ inFlightSyncs = {}
  /\ syncs = [p \in Paths |-> <<>>]
  /\ syncStats = [totalSynced |-> 0, totalErrors |-> 0,
                  lastSync |-> NeverSynced, status |-> "running"]
  /\ proc = "running"
  /\ cleanupInterval = "active"
  /\ nEvents = 0
  /\ last = NoLast
  /\ InitReceiver
  /\ retry \in {[pc |-> "calling", maxRetries |-> m, baseDelay |-> b,
                 attempt |-> 0, log |-> <<>>, outcomes |-> <<>>,
                 out |-> "none"] :
                  m \in 0..MaxRetriesTried, b \in BaseDelays}

\* "return await fn()" when fn returns r
RetryFnSucceeds(r) ==
  /\ retry.pc = "calling"
  /\ retry' = [retry EXCEPT !.pc = "returned", !.log = Append(@, Called),
                            !.outcomes = Append(@, r), !.out = r]
  /\ UNCHANGED senderVars
  /\ UNCHANGED receiverVars

\* the catch block when fn throws err: throw it after the last attempt,
\* else start the delay
RetryFnFails(err) ==
  /\ retry.pc = "calling"
  /\ retry' =
       IF RetryExhausted(retry.attempt, retry.maxRetries)
       THEN [retry EXCEPT !.pc = "thrown", !.log = Append(@, Called),
                          !.outcomes = Append(@, err),
                          !.out = CaughtError(Append(retry.outcomes, err))]
       ELSE [retry EXCEPT !.pc = "waiting",
               !.log = Append(Append(@, Called),
                         Waited(BackoffDelay(retry.baseDelay, retry.attempt))),
               !.outcomes = Append(@, err)]
  /\ UNCHANGED senderVars
  /\ UNCHANGED receiverVars

\* the delay is over: attempt++ and the loop goes round
RetryWaitDone ==
  /\ retry.pc = "waiting"
  /\ retry.attempt < retry.maxRetries
  /\ retry' = [retry EXCEPT !.pc = "calling", !.attempt = @ + 1]
  /\ UNCHANGED senderVars
  /\ UNCHANGED receiverVars

NextRetry ==
  \/ \E r \in FnResults : RetryFnSucceeds(r)
  \/ \E err \in ErrorKinds : RetryFnFails(err)
  \/ RetryWaitDone

SpecRetry == InitRetry /\ [][NextRetry]_vars

(***************************************************************************)
(* Claims about the watcher side (checked under Spec)                      *)
(***************************************************************************)
TimersOf(p) == {t \in timers : t.path = p}

C2_MutualExclusion ==
  /\ [](\A p \in Paths : /\ Len(syncs[p]) <= 1
                         /\ Len(syncs[p]) = 1 => p \in inFlightSyncs)
  /\ [][\A t \in timers :
          (TimerFire(t) /\ TransfersOn(t.evt) /\ t.path \in inFlightSyncs) =>
             /\ UNCHANGED <<syncs, syncStats, inFlightSyncs>>
             /\ last' = "skipped"]_vars

\* a timer fired for a path whose transfer was still going on
C2_Witness ==
  /\ last = "skipped"
  /\ \E p \in Paths : Len(syncs[p]) = 1 /\ p \in inFlightSyncs

\* C3: a path with no syncFile invocation outstanding is not in
\* inFlightSyncs, whichever way its invocations ended.
C3_GuardReleased ==
  \A p \in Paths : syncs[p] = <<>> => p \notin inFlightSyncs

\* an invocation gave up after its last retry and the guard is free again
C3_Witness ==
  /\ last = "exhausted"
  /\ inFlightSyncs = {}
  /\ syncStats.totalErrors = 1

\* C4: pendingOperations never holds more than MAX_PENDING_OPERATIONS
\* entries once handleFileChange has returned.
C4_Bounded == Len(pendingOperations) <= MAX_PENDING_OPERATIONS

\* more paths than the capacity have changed and no timer has fired yet
C4_Witness ==
  /\ Len(pendingOperations) = MAX_PENDING_OPERATIONS
  /\ Cardinality({p \in Paths : files[p].kind # "none"}) > MAX_PENDING_OPERATIONS
  /\ last = NoLast

\* C5: neither a 'remove' event nor the fire of the timer it scheduled
\* calls syncFile, starts a transfer or touches the stats.
C5_NoDeletePropagation ==
  [][/\ \A t \in timers :
          (t.evt = "remove" /\ TimerFire(t)) =>
             /\ UNCHANGED <<syncs, inFlightSyncs, syncStats>>
             /\ last' = "logged"
     /\ \A p \in Paths :
          FsRemove(p) => UNCHANGED <<syncs, inFlightSyncs, syncStats, last>>]_vars

\* the timer of a 'remove' event has fired while a transfer of the same
\* path was in flight
C5_Witness ==
  /\ last = "logged"
  /\ \E p \in Paths : files[p].kind = "none" /\ p \in inFlightSyncs

\* C10: a step of an invocation that has reached the send step changes the
\* stats only when it ends the invocation, and then by one: totalSynced
\* (and lastSync) on success, totalErrors after the last of the
\* DEFAULT_MAX_RETRIES + 1 attempts failed; the process keeps running.
C10_OneCounter ==
  [][\A p \in Paths : \A i \in 1..Len(syncs[p]) :
       (syncs[p][i].pc = "sending" /\ syncs'[p] # syncs[p]) =>
          /\ proc' = "running"
          /\ IF Len(syncs'[p]) < Len(syncs[p])
             THEN \/ /\ last' = IF syncs[p][i].attempt = 0 THEN "success" ELSE "success on retry"
                     /\ syncStats'.totalSynced = syncStats.totalSynced + 1
                     /\ syncStats'.totalErrors = syncStats.totalErrors
                     /\ syncStats'.lastSync # syncStats.lastSync
                  \/ /\ last' = "exhausted"
                     /\ syncs[p][i].attempt = DEFAULT_MAX_RETRIES
                     /\ syncStats'.totalErrors = syncStats.totalErrors + 1
                     /\ syncStats'.totalSynced = syncStats.totalSynced
                     /\ syncStats'.lastSync = syncStats.lastSync
             ELSE syncStats' = syncStats]_vars

\* a retry succeeded after a failed attempt and no error was counted
C10_Witness ==
  /\ last = "success on retry"
  /\ syncStats.totalSynced = 1
  /\ syncStats.totalErrors = 0

(***************************************************************************)
(* Claims about retryWithBackoff (checked under SpecRetry)                 *)
(***************************************************************************)
\* C6: when fn has failed every time, it was called maxRetries + 1 times,
\* the n-th retry was preceded by one wait of baseDelay * 2^(n-1) ms (1000,
\* 2000, 4000 with the defaults), and nothing was waited before the first
\* call or after the last.
C6_RetrySchedule ==
  retry.pc = "thrown" =>
    /\ Len(retry.log) = 2 * retry.maxRetries + 1
    /\ \A k \in 1..Len(retry.log) :
         IF k % 2 = 1
         THEN retry.log[k] = Called
         ELSE retry.log[k] = Waited(retry.baseDelay * 2^((k \div 2) - 1))
    /\ (retry.maxRetries = DEFAULT_MAX_RETRIES /\ retry.baseDelay = DEFAULT_BASE_DELAY) =>
         retry.log = <<Called, Waited(1000), Called, Waited(2000), Called,
                       Waited(4000), Called>>

\* the default schedule has run to its end
C6_Witness ==
  /\ retry.pc = "thrown"
  /\ retry.maxRetries = DEFAULT_MAX_RETRIES
  /\ retry.baseDelay = DEFAULT_BASE_DELAY

(***************************************************************************)
(* Claims about the transfer (checked under SpecXfer)                      *)
(***************************************************************************)
\* C7: whenever the handler answers 200 to the request an attempt of
\* syncFile is waiting for, the destination is a file whose digest is the
\* checksum the sender computed.
C7_AckedIntact ==
  [][\A k \in 1..Len(requests) :
       (HandlerFinish(k) /\ Awaiting(requests[k].id) # {}) =>
          /\ dest'.kind = "file"
          /\ Sha256(dest'.data) = requests[k].checksum]_vars

\* C8: a request whose checksum field differs from the digest of the
\* uploaded bytes is answered 400 within the step that verifies it, its
\* temporary file is removed and the destination is as it was; no request
\* with such a checksum gets to the copy.
C8_MismatchRejected ==
  /\ [](\A k \in 1..Len(requests) :
          requests[k].pc = "copying" =>
             \/ requests[k].checksum = NoChecksum
             \/ Sha256(requests[k].temp) = requests[k].checksum)
  /\ [][\A k \in 1..Len(requests) :
          (/\ HandlerVerify(k)
           /\ requests[k].checksum # NoChecksum
           /\ Sha256(requests[k].temp) # requests[k].checksum) =>
             /\ response' = [id |-> requests[k].id, status |-> 400]
             /\ requests[k].id \notin uploads'
             /\ Len(requests') = Len(requests) - 1
             /\ dest' = dest]_vars

\* a rejected upload: answered 400, temporary file gone, the attempt that
\* sent it has failed and nothing is at the destination
C8_Witness ==
  /\ response.status = 400
  /\ response.id \notin uploads
  /\ requests = <<>>
  /\ dest = NoFile
  /\ Len(syncs[XPath]) = 1
  /\ syncs[XPath][1].attempt = 1

\* C9: every change of the destination puts the complete content of an
\* upload there.
C9_AllOrNothing ==
  [][dest' # dest =>
       \E k \in 1..Len(requests) : dest' = RegFile(requests[k].temp)]_vars

(***************************************************************************)
(* More claims about the watcher side (checked under Spec)                 *)
(***************************************************************************)
\* C11: a step of syncFile that finds the source file gone, or a directory
\* in its place (at the existence check, at the checksum or at the send),
\* ends the invocation and leaves totalErrors and totalSynced as they
\* were; the attempt is not repeated.
C11_VanishNotCounted ==
  [][/\ \A t \in timers :
          (/\ TimerFire(t)
           /\ TransfersOn(t.evt)
           /\ t.path \notin inFlightSyncs
           /\ files[t.path].kind # "file") =>
             /\ syncs' = syncs
             /\ syncStats' = syncStats
     /\ \A p \in Paths : \A i \in 1..Len(syncs[p]) :
          (/\ files[p].kind # "file"
           /\ ChecksumDone(p, i) \/ \E ok \in BOOLEAN : Attempt(p, i, ok)) =>
             /\ syncs'[p] = RemoveAt(syncs[p], i)
             /\ syncStats' = syncStats]_vars

(***************************************************************************)
(* The watcher side of one path with the termination signal.  A promise    *)
(* that a running process awaits settles: calculateChecksum ends with the  *)
(* stream, and fetch ends with a response, an error or its timeout.        *)
(***************************************************************************)
NextSigint ==
  \/ \E c \in WatchedContents(XPath) : FsWrite(XPath, c)
  \/ \E t \in timers : TimerFire(t)
  \/ \E i \in 1..2 : ChecksumDone(XPath, i)
  \/ \E i \in 1..2, ok \in BOOLEAN : Attempt(XPath, i, ok)
  \/ CleanupTick
  \/ \E d \in TimeSteps : Advance(d)
  \/ Sigint

SpecSigint ==
  /\ Init
  /\ [][NextSigint]_vars
  /\ WF_vars(\E i \in 1..2 : ChecksumDone(XPath, i))
  /\ WF_vars(\E i \in 1..2, ok \in BOOLEAN : Attempt(XPath, i, ok))

\* C12: once the process has got the signal no debounce timer fires and
\* no sweep runs, and every transfer that holds the in-flight guard gets
\* to its outcome, which releases the guard.
C12_InFlightCompletes ==
  /\ [][proc # "running" => UNCHANGED <<timers, pendingOperations>>]_vars
  /\ \A p \in Paths : (p \in inFlightSyncs) ~> (p \notin inFlightSyncs)

\* the watcher reports an event for path p: one call of handleFileChange
EventOn(p) ==
  \/ \E c \in WatchedContents(p) : FsWrite(p, c)
  \/ FsMkdir(p)
  \/ FsRemove(p)

\* C13: no path has two entries; and when an event for path p finds the
\* map at capacity with no entry older than OPERATION_EXPIRY_MS, the first
\* entry in insertion order goes and its timer with it, every other entry
\* of another path stays as it is with its timer, and p has its one new
\* entry with a new timer.
C13_EvictsOldest ==
  /\ [](\A i, j \in 1..Len(pendingOperations) :
          pendingOperations[i].path = pendingOperations[j].path => i = j)
  /\ [][\A p \in Paths :
          (/\ EventOn(p)
           /\ Len(pendingOperations) >= MAX_PENDING_OPERATIONS
           /\ \A i \in 1..Len(pendingOperations) :
                pendingOperations[i].age <= OPERATION_EXPIRY_MS) =>
             LET old == Head(pendingOperations)
                 kept == SelectSeq(Tail(pendingOperations),
                                   LAMBDA e : e.path # p)
             IN /\ SelectSeq(pendingOperations', LAMBDA e : e.path # p) = kept
                /\ Len(pendingOperations') = Len(kept) + 1
                /\ \E t \in timers' :
                     /\ t.path = p
                     /\ t.age = 0
                     /\ timers' = {u \in timers : u.path \notin {old.path, p}}
                                    \cup {t}
                     /\ \E i \in 1..Len(pendingOperations') :
                          pendingOperations'[i] =
                            [path |-> p, timeoutId |-> t.id, age |-> 0]]_vars

\* more paths have changed than the map holds, no timer has fired, and a
\* changed path has neither entry nor timer left
C13_Witness ==
  /\ last = NoLast
  /\ nEvents = MAX_PENDING_OPERATIONS + 1
  /\ Len(pendingOperations) = MAX_PENDING_OPERATIONS
  /\ \E p \in Paths : /\ files[p].kind # "none"
                      /\ ~MapHas(pendingOperations, p)
                      /\ TimersOf(p) = {}

\* C14: a run of the periodic sweep removes the entries whose age is more
\* than OPERATION_EXPIRY_MS and no other, in place; the timers of the
\* removed entries are cancelled and every other timer is left as it is.
C14_SweepExact ==
  [][CleanupTick =>
       /\ pendingOperations' =
            SelectSeq(pendingOperations,
                      LAMBDA e : e.age <= OPERATION_EXPIRY_MS)
       /\ timers' =
            {t \in timers :
               \A i \in 1..Len(pendingOperations) :
                 pendingOperations[i].timeoutId = t.id =>
                   pendingOperations[i].age <= OPERATION_EXPIRY_MS}]_vars

\* two paths have changed and no timer has fired; the sweep has removed the
\* entry and the timer of the one and left those of the other
C14_Witness ==
  /\ last = NoLast
  /\ nEvents = 2
  /\ Cardinality({p \in Paths : files[p].kind # "none"}) = 2
  /\ Len(pendingOperations) = 1
  /\ pendingOperations[1].age <= OPERATION_EXPIRY_MS
  /\ timers = {t \in timers : t.id = pendingOperations[1].timeoutId}
  /\ Cardinality(timers) = 1

(***************************************************************************)
(* More claims about retryWithBackoff (checked under SpecRetry)            *)
(***************************************************************************)
\* C15: retryWithBackoff returns at the first call of fn that succeeds,
\* with what that call returned and with nothing called or waited after
\* it; when maxRetries + 1 calls have failed it throws the error of the
\* last one; and a failed call that is not the last is followed by the
\* same wait whatever the error is.
C15_FirstSuccessLastError ==
  /\ [](retry.pc = "returned" =>
          /\ Len(retry.outcomes) = retry.attempt + 1
          /\ \A k \in 1..(Len(retry.outcomes) - 1) :
               retry.outcomes[k] \in ErrorKinds
          /\ retry.outcomes[Len(retry.outcomes)] \in FnResults
          /\ retry.out = retry.outcomes[Len(retry.outcomes)]
          /\ Len(retry.log) = 2 * Len(retry.outcomes) - 1
          /\ retry.log[Len(retry.log)] = Called)
  /\ [](retry.pc = "thrown" =>
          /\ Len(retry.outcomes) = retry.maxRetries + 1
          /\ \A k \in 1..Len(retry.outcomes) : retry.outcomes[k] \in ErrorKinds
          /\ retry.out = retry.outcomes[Len(retry.outcomes)])
  /\ [][/\ retry.pc \in {"returned", "thrown"} => retry' = retry
        /\ \A err \in ErrorKinds :
             (RetryFnFails(err) /\ retry.attempt < retry.maxRetries) =>
                /\ retry'.pc = "waiting"
                /\ retry'.log =
                     retry.log \o <<Called,
                                    Waited(retry.baseDelay * 2^retry.attempt)>>]_vars

\* a run in which a receiver's 400 was retried and gave way to another
\* error, which was thrown after the last attempt
C15_Witness ==
  /\ retry.pc = "thrown"
  /\ retry.maxRetries = DEFAULT_MAX_RETRIES
  /\ retry.outcomes[1] = "status 400"
  /\ retry.out = "timeout"

(***************************************************************************)
(* The receiver alone: any upload arrives, with the checksum of its bytes, *)
(* with another checksum or with none.  Every stream operation of the      *)
(* handler ends (with 'finish' or with 'error'), so a handler that can     *)
(* take its next step takes it.                                            *)
(***************************************************************************)
\* the checksum fields a request for content c may carry
ChecksumFields(c) == {NoChecksum, Sha256(c), Sha256(c) + 1}

\* multer has stored the upload and calls the handler
Receive(c, ck) ==
  /\ Cardinality(uploads) < MaxRequests
  /\ Len(requests) < MaxRequests
  /\ requests' = Append(requests,
                   [id |-> FreshUpload, temp |-> c, checksum |-> ck,
                    pc |-> "received", opened |-> FALSE, off |-> 0])
  /\ uploads' = uploads \cup {FreshUpload}
  /\ UNCHANGED <<dest, response>>
  /\ UNCHANGED senderVars
  /\ UNCHANGED retry

NextRecv ==
  \/ \E c \in XferContents : \E ck \in ChecksumFields(c) : Receive(c, ck)
  \/ \E k \in 1..MaxRequests : HandlerVerify(k)
  \/ \E k \in 1..MaxRequests : HandlerOpen(k)
  \/ \E k \in 1..MaxRequests : HandlerWrite(k)
  \/ \E k \in 1..MaxRequests : HandlerFinish(k)
  \/ \E k \in 1..MaxRequests : HandlerFails(k)

SpecRecv ==
  /\ Init
  /\ [][NextRecv]_vars
  /\ \A k \in 1..MaxRequests :
       /\ WF_vars(HandlerVerify(k))
       /\ WF_vars(HandlerOpen(k))
       /\ WF_vars(HandlerWrite(k))
       /\ WF_vars(HandlerFinish(k))

\* the ids of the requests the handler has not answered
Unanswered == {requests[k].id : k \in 1..Len(requests)}

\* C16: a request leaves the handler with one response, and only so: 200
\* when its checksum, if it has one, equals the digest of the upload and
\* the copy is complete; 400 when it has a checksum that differs, straight
\* from the verification; 500 from a failure after the verification.  No
\* two requests in the handler are the same, and every request is answered
\* in the end.
C16_OneResponse ==
  /\ [](\A i, j \in 1..Len(requests) :
          requests[i].id = requests[j].id => i = j)
  /\ [][(response' # response \/ requests' # requests) =>
          \/ /\ Len(requests') >= Len(requests)
             /\ response' = response
          \/ \E k \in 1..Len(requests) :
               LET r == requests[k] IN
               /\ requests' = RemoveAt(requests, k)
               /\ response'.id = r.id
               /\ response'.status \in {200, 400, 500}
               /\ response'.status = 200 =>
                    /\ r.pc = "copying"
                    /\ r.checksum = NoChecksum \/ r.checksum = Sha256(r.temp)
                    /\ r.opened
                    /\ r.off = Len(r.temp)
               /\ response'.status = 400 =>
                    /\ r.pc = "received"
                    /\ r.checksum # NoChecksum
                    /\ r.checksum # Sha256(r.temp)
               /\ response'.status = 500 => r.pc = "copying"]_vars
  /\ \A id \in 1..(MaxRequests + 1) :
       (id \in Unanswered) ~> (id \notin Unanswered)

\* an upload of full length has been copied and answered 200, and its
\* temporary file is gone
C16_Witness ==
  /\ response.status = 200
  /\ requests = <<>>
  /\ uploads = {}
  /\ dest.kind = "file"
  /\ Len(dest.data) = MaxLen

(***************************************************************************)
(* Claims about the debounce window and the order of a transfer (Spec)    *)
(***************************************************************************)
\* C17: after an event for a path, the path has one timer, new, of the
\* kind of that event.  A timer that fires belongs to the entry of its
\* path, which is the entry of the latest event for the path, and that
\* entry is DEBOUNCE_DELAY old or older.  The fire of a 'remove' timer only
\* logs; the fire of a create/update timer calls syncFile.
C17_TrailingEdge ==
  /\ [][\A p \in Paths :
          /\ FsRemove(p) =>
               \E t \in timers' :
                 /\ {u \in timers' : u.path = p} = {t}
                 /\ t.age = 0
                 /\ t.evt = "remove"
          /\ ((\E c \in WatchedContents(p) : FsWrite(p, c)) \/ FsMkdir(p)) =>
               \E t \in timers' :
                 /\ {u \in timers' : u.path = p} = {t}
                 /\ t.age = 0
                 /\ t.evt \in ChangeKinds]_vars
  /\ [][\A t \in timers :
          TimerFire(t) =>
            /\ MapHas(pendingOperations, t.path)
            /\ MapGet(pendingOperations, t.path).timeoutId = t.id
            /\ MapGet(pendingOperations, t.path).age >= DEBOUNCE_DELAY
            /\ t.evt = "remove" =>
                 /\ last' = "logged"
                 /\ UNCHANGED <<syncs, inFlightSyncs, syncStats>>
            /\ t.evt \in ChangeKinds =>
                 last' \in {"skipped", "missing", "directory", "started"}]_vars

\* a path was changed and then removed inside the window: no timer has
\* fired, and the one timer there is stands for the removal and is due
C17_Witness ==
  /\ last = NoLast
  /\ nEvents = 2
  /\ \E t \in timers : /\ timers = {t}
                       /\ t.evt = "remove"
                       /\ t.age >= DEBOUNCE_DELAY
                       /\ files[t.path].kind = "none"

\* C18: a timer that fires takes its entry out of pendingOperations, and
\* the invocation it starts holds the guard and is at the checksum.  An
\* invocation is at the checksum, then at the send, then over; whenever it
\* reads the file its path is in inFlightSyncs.  The counters change only
\* in the step that ends an invocation, and it is that step, and no step
\* before it, that takes the path out of inFlightSyncs.
C18_Order ==
  /\ [](\A p \in Paths : \A i \in 1..Len(syncs[p]) :
          /\ p \in inFlightSyncs
          /\ syncs[p][i].pc \in {"checksum", "sending"}
          /\ syncs[p][i].pc = "checksum" => syncs[p][i].checksum = NoChecksum
          /\ syncs[p][i].pc = "sending" => syncs[p][i].checksum # NoChecksum)
  /\ [][\A t \in timers :
          TimerFire(t) =>
            /\ ~MapHas(pendingOperations', t.path)
            /\ syncStats' = syncStats
            /\ last' = "started" =>
                 /\ t.path \notin inFlightSyncs
                 /\ t.path \in inFlightSyncs'
                 /\ syncs'[t.path] = <<NewSync(t.path, t.coalesced)>>]_vars
  /\ [][\A p \in Paths :
          /\ \A i \in 1..Len(syncs[p]) :
               (ChecksumDone(p, i) \/ \E ok \in BOOLEAN : Attempt(p, i, ok)) =>
                  /\ p \in inFlightSyncs
                  /\ Len(syncs'[p]) = Len(syncs[p]) =>
                       /\ syncs'[p][i].pc = "sending"
                       /\ syncStats' = syncStats
                       /\ p \in inFlightSyncs'
                  /\ Len(syncs'[p]) < Len(syncs[p]) =>
                       /\ syncStats' # syncStats
                       /\ p \notin inFlightSyncs'
                  /\ syncStats'.totalSynced # syncStats.totalSynced =>
                       syncs[p][i].pc = "sending"
          /\ (p \in inFlightSyncs /\ p \notin inFlightSyncs') =>
               /\ Len(syncs[p]) = 1
               /\ syncs'[p] = <<>>
               /\ syncStats' # syncStats]_vars

\* a transfer has gone through all its steps: sent, counted, guard released
C18_Witness ==
  /\ last = "success"
  /\ syncStats.totalSynced = 1
  /\ inFlightSyncs = {}
  /\ pendingOperations = <<>>
  /\ nEvents = 1

\* C19: an event for a path that has an entry leaves the entry and the
\* timer of every other path as they are.
C19_ReplaceOnlyOwn ==
  [][\A p \in Paths :
       (EventOn(p) /\ MapHas(pendingOperations, p)) =>
          /\ SelectSeq(pendingOperations', LAMBDA e : e.path # p) =
               SelectSeq(pendingOperations, LAMBDA e : e.path # p)
          /\ {t \in timers' : t.path # p} = {t \in timers : t.path # p}]_vars

(***************************************************************************)
(* One path from the watcher to the destination, with a receiver that      *)
(* handles every upload to its end and a network that delivers every       *)
(* request and response.  Time passes, a due timer fires, and every        *)
(* awaited operation ends.  The events are finitely many.                  *)
(***************************************************************************)
NextLive ==
  \/ \E c \in WatchedContents(XPath) : FsWrite(XPath, c)
  \/ \E d \in TimeSteps : Advance(d)
  \/ \E t \in timers : TimerFire(t)
  \/ \E i \in 1..2 : ChecksumDone(XPath, i)
  \/ \E i \in 1..2 : Upload(XPath, i)
  \/ \E k \in 1..MaxRequests : HandlerVerify(k)
  \/ \E k \in 1..MaxRequests : HandlerOpen(k)
  \/ \E k \in 1..MaxRequests : HandlerWrite(k)
  \/ \E k \in 1..MaxRequests : HandlerFinish(k)

SpecLive ==
  /\ Init
  /\ [][NextLive]_vars
  /\ WF_vars(\E d \in TimeSteps : Advance(d))
  /\ WF_vars(\E t \in timers : TimerFire(t))
  /\ WF_vars(\E i \in 1..2 : ChecksumDone(XPath, i))
  /\ WF_vars(\E i \in 1..2 : Upload(XPath, i))
  /\ WF_vars(\E k \in 1..MaxRequests : HandlerVerify(k))
  /\ WF_vars(\E k \in 1..MaxRequests : HandlerOpen(k))
  /\ WF_vars(\E k \in 1..MaxRequests : HandlerWrite(k))
  /\ WF_vars(\E k \in 1..MaxRequests : HandlerFinish(k))

\* C20: once the events have stopped, the destination comes to hold, and
\* goes on holding, what the watched file holds.
C20_FinalContentSynced ==
  <>[](files[XPath].kind = "file" => dest = files[XPath])

(***************************************************************************)
(* Claims about the entries and the timers together (checked under Spec)   *)
(***************************************************************************)
\* the live timers whose handle an entry stores
TimersHeldBy(e) == {t \in timers : t.id = e.timeoutId}

\* C21: the entries of pendingOperations and the live debounce timers
\* correspond one to one: the handle an entry stores is that of exactly
\* one live timer, which is a timer of the entry's path; every live timer
\* is the one held by the entry of its path; and there are as many timers
\* as entries.
C21_EntriesMatchTimers ==
  /\ \A i \in 1..Len(pendingOperations) :
       /\ Cardinality(TimersHeldBy(pendingOperations[i])) = 1
       /\ \A t \in TimersHeldBy(pendingOperations[i]) :
            t.path = pendingOperations[i].path
  /\ \A t \in timers :
       /\ MapHas(pendingOperations, t.path)
       /\ MapGet(pendingOperations, t.path).timeoutId = t.id
  /\ Cardinality(timers) = Len(pendingOperations)

\* no timer has fired; one path has had its entry replaced by a later
\* event and has the timer of that event, another has lost its entry
\* (evicted to make room) and has no timer left
C21_Witness ==
  /\ last = NoLast
  /\ nEvents = MaxEvents
  /\ \E p \in Paths : /\ files[p].kind # "none"
                      /\ ~MapHas(pendingOperations, p)
                      /\ TimersOf(p) = {}
  /\ \E t \in timers : /\ t.coalesced
                       /\ timers = {t}
                       /\ Len(pendingOperations) = 1

(***************************************************************************)
(* Claims about the temporary files of the receiver (checked under         *)
(* SpecRecv)                                                               *)
(***************************************************************************)
\* C22: the step in which the handler answers a request (200, 400 or 500)
\* leaves no temporary file of that request in uploads/, so the temporary
\* files there are those of the requests still being handled.
C22_TempRemoved ==
  /\ [](uploads \subseteq Unanswered)
  /\ [][\A k \in 1..Len(requests) :
          (/\ HandlerVerify(k) \/ HandlerFinish(k) \/ HandlerFails(k)
           /\ response'.id = requests[k].id
           /\ requests' = RemoveAt(requests, k)) =>
             requests[k].id \notin uploads']_vars

(***************************************************************************)
(* The receiver with uploads for one relativePath that may overlap: a      *)
(* request arrives while another is being handled (a retry sent after the  *)
(* timeout of fetch, say).  Each upload carries one of two payloads, and   *)
(* no stream fails.                                                        *)
(***************************************************************************)
\* the payloads of the uploads: no sequence of whole copies of them, one
\* after the other, leaves anything else at the destination
OverlapPayloads == {<<1>>, <<0, 1>>}

NextOverlap ==
  \/ \E c \in OverlapPayloads : \E ck \in ChecksumFields(c) : Receive(c, ck)
  \/ \E k \in 1..MaxRequests : HandlerVerify(k)
  \/ \E k \in 1..MaxRequests : HandlerOpen(k)
  \/ \E k \in 1..MaxRequests : HandlerWrite(k)
  \/ \E k \in 1..MaxRequests : HandlerFinish(k)

SpecOverlap == Init /\ [][NextOverlap]_vars

\* C23: when the handler has answered every request it was given and the
\* latest answer is 200, the destination is a file that holds the complete
\* payload of one of the requests.
C23_OnePayload ==
  (requests = <<>> /\ response.status = 200) =>
     \E c \in OverlapPayloads : dest = RegFile(c)

(***************************************************************************)
(* Claims about the checksum field of an attempt (checked under SpecXfer)  *)
(***************************************************************************)
\* C24: every request an attempt of syncFile has sent, the first attempt
\* or a retry, carries in its checksum field the digest of the bytes the
\* attempt streamed.
C24_ChecksumOfSentBytes ==
  \A k \in 1..Len(requests) :
    requests[k].checksum = Sha256(requests[k].temp)

====
